---- MODULE Spec2Model ----
(***************************************************************************)
(* gh-cli `close-milestone`: the run of src/main.rs as a state machine.    *)
(*                                                                         *)
(* main() reads the settings, parses the pattern argument, requires the    *)
(* credentials, lists the milestones of every configured repository in one *)
(* join_all, folds the matching milestones into a title -> members map,    *)
(* and then, group by group, prompts the operator and closes the members   *)
(* of a confirmed group in another join_all.                               *)
(***************************************************************************)
EXTENDS Integers, Sequences, FiniteSets, TLC

(* ------------------------------------------------------------------ *)
(* Bounds of the model                                                  *)
(* ------------------------------------------------------------------ *)

\* longest configured repository list (github.repositories)
MaxRepos == 2

\* most milestones the list responses of one run can return together
MaxMilestones == 3

(* ------------------------------------------------------------------ *)
(* Data                                                                 *)
(* ------------------------------------------------------------------ *)

\* repository identifiers known to the remote service
Repos == {"a/x", "a/y"}

\* milestone titles, as character sequences
Sprint1 == <<"S", "1">>
Sprint2 == <<"S", "2">>

Titles == {Sprint1, Sprint2}

\* HTTP status codes of a response: one success, one non-success
Statuses == {200, 404}

\* StatusCode::is_success
is_success(status) == status \in 200..299

\* github_api::Milestone, the two fields main() reads
Milestone(title, url) == [title |-> title, url |-> url]

\* The locator the service gives the k-th milestone of a repository: it
\* identifies exactly this milestone in exactly this repository.
Url(repo, k) == <<repo, k>>

\* The milestone lists the service may hold for one repository.
TitleLists == UNION {[1..n -> Titles] : n \in 0..MaxMilestones}

\* The milestones a well-formed list response of `repo` deserialises to.
ListOf(world, repo) ==
    [k \in 1..Len(world[repo]) |-> Milestone(world[repo][k], Url(repo, k))]

\* regex::Regex values the pattern argument may compile to: a literal, with
\* an optional ^ and an optional $.
Regex(s, lit, e) == [start |-> s, lit |-> lit, end |-> e]

Patterns ==
    { Regex(FALSE, Sprint1, FALSE),     \* S1   matches S1
      Regex(FALSE, <<"S">>, FALSE),     \* S    matches S1 and S2
      Regex(FALSE, <<"2">>, TRUE),      \* 2$   matches S2
      Regex(TRUE, <<"1">>, FALSE) }     \* ^1   matches neither

\* Regex::is_match: an unanchored search of the pattern in the text.
is_match(re, text) ==
    \E i \in 0..(Len(text) - Len(re.lit)) :
        /\ SubSeq(text, i + 1, i + Len(re.lit)) = re.lit
        /\ re.start => i = 0
        /\ re.end => i + Len(re.lit) = Len(text)

\* settings::GitHub.repositories: any list, duplicates allowed
RepoLists == UNION {[1..n -> Repos] : n \in 0..MaxRepos}

\* number of milestones the configured entries `repos` hold together in `w`
RECURSIVE Listed(_, _)
Listed(w, repos) ==
    IF repos = <<>> THEN 0 ELSE Len(w[Head(repos)]) + Listed(w, Tail(repos))

\* The states of the remote service a run with the entries `repos` can
\* meet; a repository that is not configured is never asked and holds nothing.
Worlds(repos) ==
    {w \in [Repos -> TitleLists] :
        /\ \A r \in Repos : (\A i \in 1..Len(repos) : repos[i] # r) => w[r] = <<>>
        /\ Listed(w, repos) <= MaxMilestones}

\* struct RepositoryMilestones
RepositoryMilestones(repository, milestones) ==
    [repository |-> repository, milestones |-> milestones]

(* ------------------------------------------------------------------ *)
(* The aggregation fold                                                 *)
(* ------------------------------------------------------------------ *)

\* Entry that puts the member in front of an occupied entry's list
EntryPushFront(map, title, member) ==
    IF title \in DOMAIN map
    THEN [map EXCEPT ![title] = <<member>> \o @]
    ELSE map @@ (title :> <<member>>)

\* Entry written as entry(title).or_insert(vec![member]).push(member): the
\* first member of a group is entered twice
EntryInsertAndPush(map, title, member) ==
    IF title \in DOMAIN map
    THEN [map EXCEPT ![title] = Append(@, member)]
    ELSE map @@ (title :> <<member, member>>)

\* Entry written as map.insert(title, vec![member]): an occupied entry's
\* list is replaced
EntryOverwrite(map, title, member) ==
    IF title \in DOMAIN map
    THEN [map EXCEPT ![title] = <<member>>]
    ELSE map @@ (title :> <<member>>)

\* map.entry(title): Vacant inserts a one-member list, Occupied pushes.
Entry(map, title, member) ==
    IF title \in DOMAIN map
    THEN [map EXCEPT ![title] = Append(@, member)]
    ELSE map @@ (title :> <<member>>)

\* Skip without the filter: every milestone enters the map
SkipNever(re, milestone) == FALSE

\* Skip with the test inverted: the matching milestones are skipped
SkipMatching(re, milestone) == is_match(re, milestone.title)

\* `if !pattern.is_match(&milestone.title) { continue; }`
Skip(re, milestone) == ~is_match(re, milestone.title)

\* the `for milestone in milestones` loop of the fold's closure
RECURSIVE ForMilestones(_, _, _, _)
ForMilestones(map, re, repository, milestones) ==
    IF milestones = <<>>
    THEN map
    ELSE LET milestone == Head(milestones)
             next == IF Skip(re, milestone)
                     THEN map
                     ELSE Entry(map, milestone.title,
                                <<milestone.url, repository>>)
         IN  ForMilestones(next, re, repository, Tail(milestones))

\* repository_milestones.into_iter().fold(HashMap::new(), ...)
RECURSIVE Fold(_, _, _)
Fold(map, re, rms) ==
    IF rms = <<>>
    THEN map
    ELSE Fold(ForMilestones(map, re, Head(rms).repository, Head(rms).milestones),
              re, Tail(rms))

EmptyMap == [t \in {} |-> <<>>]

Aggregate(re, rms) == Fold(EmptyMap, re, rms)

\* HashMap::into_iter: every key once, in an order the hasher decides
IterationOrders(map) ==
    LET n == Cardinality(DOMAIN map)
    IN  {o \in [1..n -> DOMAIN map] : \A i, j \in 1..n : o[i] = o[j] => i = j}

(* ------------------------------------------------------------------ *)
(* State                                                                *)
(* ------------------------------------------------------------------ *)

VARIABLES
    pc,                     \* where main() stands
    error,                  \* what main() returned: "none", "Ok" or the failure
    config,                 \* settings.toml: the repository list, whether auth is set
    world,                  \* the remote service: repository -> titles of its milestones
    repositories,           \* settings.github.repositories
    auth,                   \* settings.github.auth is Some
    pattern,                \* the compiled pattern argument
    fetch,                  \* the list requests of the first join_all, by position
    repository_milestones,  \* the joined Vec<RepositoryMilestones>
    matching_milestones,    \* the HashMap title -> members
    order,                  \* the order in which the HashMap is iterated
    found,                  \* the count printed in the summary line, -1 before it
    index,                  \* 1-based index of the group last presented, 0 before
    answers,                \* the operator's answer at each prompt shown so far
    close,                  \* per presented group, the close requests of its join_all
    closed                  \* locators the remote service has closed

vars == <<pc, error, config, world, repositories, auth, pattern, fetch,
          repository_milestones, matching_milestones, order, found, index,
          answers, close, closed>>

NoPattern == Regex(FALSE, <<>>, FALSE)

Init ==
    /\ pc = "LoadSettings"
    /\ error = "none"
    /\ config \in [repositories : RepoLists, auth : BOOLEAN]
    /\ world \in Worlds(config.repositories)
    /\ repositories = <<>>
    /\ auth = FALSE
    /\ pattern = NoPattern
    /\ fetch = <<>>
    /\ repository_milestones = <<>>
    /\ matching_milestones = EmptyMap
    /\ order = <<>>
    /\ found = -1
    /\ index = 0
    /\ answers = <<>>
    /\ close = <<>>
    /\ closed = {}

\* main() returns Err(e), or the process exits with a failure
Abort(e) ==
    /\ pc' = "Failed"
    /\ error' = e

\* main() returns Ok(())
Finish ==
    /\ pc' = "Done"
    /\ error' = "Ok"

(* ------------------------------------------------------------------ *)
(* Startup                                                              *)
(* ------------------------------------------------------------------ *)

\* ProjectDirs::from and the settings file: no configuration directory and
\* an unparsable file are fatal, a missing file gives the defaults (no
\* repositories, no credentials), a parsable file gives its values.
LoadSettings ==
    /\ pc = "LoadSettings"
    /\ \/ /\ \E e \in {"NoConfigDir", "InvalidConfigFile"} : Abort(e)
          /\ UNCHANGED <<repositories, auth>>
       \/ /\ \/ repositories' = <<>> /\ auth' = FALSE
             \/ repositories' = config.repositories /\ auth' = config.auth
          /\ pc' = "ParseArgs"
          /\ UNCHANGED error
    /\ UNCHANGED <<config, world, pattern, fetch, repository_milestones,
                   matching_milestones, order, found, index, answers, close,
                   closed>>

\* Commands::from_args: a pattern that does not compile ends the process
\* with a failure, a valid one is kept.
ParseArgs ==
    /\ pc = "ParseArgs"
    /\ \/ /\ Abort("InvalidArgs")
          /\ UNCHANGED pattern
       \/ /\ pattern' \in Patterns
          /\ pc' = "RequireAuth"
          /\ UNCHANGED error
    /\ UNCHANGED <<config, world, repositories, auth, fetch, repository_milestones,
                   matching_milestones, order, found, index, answers, close,
                   closed>>

\* one element of the first join_all: the request client.get(..).send()
\* builds for `repo`, sent once and not yet answered
ListRequest(repo) ==
    [repo |-> repo, state |-> "pending", sent |-> 1, status |-> 0,
     body |-> "none", diag |-> <<>>, milestones |-> <<>>]

\* RequireAuth with the requests built before the credentials are required
RequireAuthAfterSend ==
    /\ pc = "RequireAuth"
    /\ fetch' = [i \in 1..Len(repositories) |-> ListRequest(repositories[i])]
    /\ IF ~auth
       THEN Abort("AuthRequired")
       ELSE /\ pc' = "Fetching"
            /\ UNCHANGED error
    /\ UNCHANGED <<config, world, repositories, auth, pattern, repository_milestones,
                   matching_milestones, order, found, index, answers, close,
                   closed>>

\* auth.ok_or(Error::AuthRequired)?, then join_all(repositories.map(..)):
\* one list request per configured entry, all sent before the join waits.
RequireAuth ==
    /\ pc = "RequireAuth"
    /\ IF ~auth
       THEN /\ Abort("AuthRequired")
            /\ UNCHANGED fetch
       ELSE /\ fetch' = [i \in 1..Len(repositories) |-> ListRequest(repositories[i])]
            /\ pc' = "Fetching"
            /\ UNCHANGED error
    /\ UNCHANGED <<config, world, repositories, auth, pattern, repository_milestones,
                   matching_milestones, order, found, index, answers, close,
                   closed>>

(* ------------------------------------------------------------------ *)
(* Fetch fan-out                                                        *)
(* ------------------------------------------------------------------ *)

\* What a response body can be: a JSON array of this repository's
\* milestones, or anything response.json() fails on.
Bodies == {"list", "malformed"}

\* ListResponse that sends the request once more when the body of the first
\* response does not deserialise
ListResponseRetry(req, status, body, w) ==
    IF body = "malformed" /\ req.sent = 1
    THEN [req EXCEPT !.sent = 2]
    ELSE [req EXCEPT !.state = "done",
                     !.status = status,
                     !.body = body,
                     !.diag = IF body = "list" THEN <<>> ELSE <<req.repo, status>>,
                     !.milestones = IF body = "list" THEN ListOf(w, req.repo) ELSE <<>>]

\* .and_then(|response| response.json().or_else(..).map(..)): the body
\* decides; the status is only printed, when the body does not deserialise.
ListResponse(req, status, body, w) ==
    [req EXCEPT !.state = "done",
                !.status = status,
                !.body = body,
                !.diag = IF body = "list" THEN <<>> ELSE <<req.repo, status>>,
                !.milestones = IF body = "list" THEN ListOf(w, req.repo) ELSE <<>>]

\* join_all returns the first Err and drops every element: the requests
\* still outstanding are cancelled.
JoinError(reqs, i) ==
    [j \in 1..Len(reqs) |->
        IF j = i THEN [reqs[j] EXCEPT !.state = "error"]
        ELSE IF reqs[j].state = "pending" THEN [reqs[j] EXCEPT !.state = "cancelled"]
        ELSE reqs[j]]

\* a response arrives for the i-th list request
ListRespond(i) ==
    /\ pc = "Fetching"
    /\ fetch[i].state = "pending"
    /\ \E status \in Statuses, body \in Bodies :
          fetch' = [fetch EXCEPT ![i] = ListResponse(@, status, body, world)]
    /\ UNCHANGED <<pc, error, config, world, repositories, auth, pattern,
                   repository_milestones, matching_milestones, order, found,
                   index, answers, close, closed>>

\* send() of the i-th list request fails: the join fails and
\* .map_err(Error::Reqwest)? returns from main
ListTransportError(i) ==
    /\ pc = "Fetching"
    /\ fetch[i].state = "pending"
    /\ fetch' = JoinError(fetch, i)
    /\ Abort("Reqwest")
    /\ UNCHANGED <<config, world, repositories, auth, pattern, repository_milestones,
                   matching_milestones, order, found, index, answers, close,
                   closed>>

\* NextGroup with the loop ending one group early
NextGroupSkipLast(groups) ==
    IF index + 1 < groups
    THEN /\ index' = index + 1
         /\ pc' = "Confirming"
         /\ UNCHANGED error
    ELSE /\ Finish
         /\ UNCHANGED index

\* the loop head of `for (index, (milestone, repositories)) in ..`: the next
\* group is printed and its prompt shown, or the loop ends and main returns
NextGroup(groups) ==
    IF index < groups
    THEN /\ index' = index + 1
         /\ pc' = "Confirming"
         /\ UNCHANGED error
    ELSE /\ Finish
         /\ UNCHANGED index

\* Joined with the records taken from the last element to the first
JoinedReversed(reqs) ==
    [i \in 1..Len(reqs) |->
        RepositoryMilestones(reqs[Len(reqs) + 1 - i].repo,
                             reqs[Len(reqs) + 1 - i].milestones)]

\* what join_all resolves to: the element's values by position, whatever
\* the order in which the elements completed
Joined(reqs) ==
    [i \in 1..Len(reqs) |-> RepositoryMilestones(reqs[i].repo, reqs[i].milestones)]

\* every list request is answered: block_on returns the records in the
\* configured order, the fold builds the map, the summary line is printed
FetchJoin ==
    /\ pc = "Fetching"
    /\ \A i \in 1..Len(fetch) : fetch[i].state = "done"
    /\ repository_milestones' = Joined(fetch)
    /\ matching_milestones' = Aggregate(pattern, repository_milestones')
    /\ order' \in IterationOrders(matching_milestones')
    /\ found' = Cardinality(DOMAIN matching_milestones')
    /\ NextGroup(Len(order'))
    /\ UNCHANGED <<config, world, repositories, auth, pattern, fetch, answers, close,
                   closed>>

(* ------------------------------------------------------------------ *)
(* Group loop                                                           *)
(* ------------------------------------------------------------------ *)

\* the members of the group being presented
Members == matching_milestones[order[index]]

\* one element of a group's join_all: client.patch(&url)..send()
CloseRequest(member) ==
    [url |-> member[1], repo |-> member[2], state |-> "pending", sent |-> 1,
     status |-> 0, diag |-> FALSE]

\* CloseRequests without the guard: the requests are sent on any answer
CloseRequestsUnguarded(answer, members) ==
    [j \in 1..Len(members) |-> CloseRequest(members[j])]

\* `if interact()? { join_all(repositories.map(..)) }`: the close requests
\* sent on an answer, one per member when it is `yes`
CloseRequests(answer, members) ==
    IF answer = "yes"
    THEN [j \in 1..Len(members) |-> CloseRequest(members[j])]
    ELSE <<>>

\* what Confirmation::interact() can give: Ok(true), Ok(false), Err(_)
Answers == {"yes", "no", "err"}

\* Confirm with a read failure taken as `no` (interact().unwrap_or(false))
ConfirmErrAsNo ==
    /\ pc = "Confirming"
    /\ \E answer \in Answers :
          /\ answers' = Append(answers, answer)
          /\ close' = Append(close, CloseRequests(answer, Members))
          /\ IF answer = "yes"
             THEN /\ pc' = "Mutating"
                  /\ UNCHANGED <<error, index>>
             ELSE NextGroup(Len(order))
    /\ UNCHANGED <<config, world, repositories, auth, pattern, fetch,
                   repository_milestones, matching_milestones, order, found,
                   closed>>

\* Confirmation::interact(): a read failure is fatal, `no` skips the group,
\* `yes` sends the close requests and waits for them.
Confirm ==
    /\ pc = "Confirming"
    /\ \E answer \in Answers :
          /\ answers' = Append(answers, answer)
          /\ close' = Append(close, CloseRequests(answer, Members))
          /\ IF answer = "err"
             THEN /\ Abort("IO")
                  /\ UNCHANGED index
             ELSE IF answer = "yes"
             THEN /\ pc' = "Mutating"
                  /\ UNCHANGED <<error, index>>
             ELSE NextGroup(Len(order))
    /\ UNCHANGED <<config, world, repositories, auth, pattern, fetch,
                   repository_milestones, matching_milestones, order, found,
                   closed>>

\* .and_then(move |response| ..): a non-success status prints the
\* diagnostic naming the repository, every response resolves to Ok(())
CloseResponse(req, status) ==
    [req EXCEPT !.state = "done",
                !.status = status,
                !.diag = ~is_success(status)]

\* a response arrives for the j-th close request of the current group; the
\* service has closed the milestone when it answers with success
CloseRespond(j) ==
    /\ pc = "Mutating"
    /\ close[index][j].state = "pending"
    /\ \E status \in Statuses :
          /\ close' = [close EXCEPT ![index][j] = CloseResponse(@, status)]
          /\ closed' = IF is_success(status)
                       THEN closed \cup {close[index][j].url}
                       ELSE closed
    /\ UNCHANGED <<pc, error, config, world, repositories, auth, pattern, fetch,
                   repository_milestones, matching_milestones, order, found,
                   index, answers>>

\* send() of the j-th close request fails: the join fails and
\* .map_err(Error::Reqwest)? returns from main
CloseTransportError(j) ==
    /\ pc = "Mutating"
    /\ close[index][j].state = "pending"
    /\ close' = [close EXCEPT ![index] = JoinError(@, j)]
    /\ Abort("Reqwest")
    /\ UNCHANGED <<config, world, repositories, auth, pattern, fetch,
                   repository_milestones, matching_milestones, order, found,
                   index, answers, closed>>

\* CloseJoin that goes on as soon as one close request is answered
CloseJoinFirst ==
    /\ pc = "Mutating"
    /\ \E j \in 1..Len(close[index]) : close[index][j].state = "done"
    /\ NextGroup(Len(order))
    /\ UNCHANGED <<config, world, repositories, auth, pattern, fetch,
                   repository_milestones, matching_milestones, order, found,
                   answers, close, closed>>

\* every close request of the group is answered: the loop goes on
CloseJoin ==
    /\ pc = "Mutating"
    /\ \A j \in 1..Len(close[index]) : close[index][j].state = "done"
    /\ NextGroup(Len(order))
    /\ UNCHANGED <<config, world, repositories, auth, pattern, fetch,
                   repository_milestones, matching_milestones, order, found,
                   answers, close, closed>>

(* ------------------------------------------------------------------ *)
(* Specification                                                        *)
(* ------------------------------------------------------------------ *)

\* positions of the close requests of the join_all main() waits on
CloseIndices == IF pc = "Mutating" THEN 1..Len(close[index]) ELSE {}

Next ==
    \/ LoadSettings
    \/ ParseArgs
    \/ RequireAuth
    \/ \E i \in 1..Len(fetch) : ListRespond(i)
    \/ \E i \in 1..Len(fetch) : ListTransportError(i)
    \/ FetchJoin
    \/ Confirm
    \/ \E j \in CloseIndices : CloseRespond(j)
    \/ \E j \in CloseIndices : CloseTransportError(j)
    \/ CloseJoin

Spec == Init /\ [][Next]_vars

\* Every request sent is answered or fails, every prompt shown is answered
\* or fails to be read: whatever step main() waits for happens.
FairSpec == Spec /\ WF_vars(Next)

(* ------------------------------------------------------------------ *)
(* Properties                                                           *)
(* ------------------------------------------------------------------ *)

\* main() has returned
Terminated == pc \in {"Done", "Failed"}

\* the summary line is printed: the fetch has joined and the fold has run
Aggregated == found >= 0

\* the fold has just run: its output is in hand, no prompt is answered yet
Folded == Aggregated /\ answers = <<>>

\* a list request that failed: no response, a non-success one, a bad body
ListFailed(req) ==
    \/ req.state = "error"
    \/ req.state = "done" /\ (~is_success(req.status) \/ req.body = "malformed")

\* a list request answered with success and a well-formed list
ListSucceeded(req) ==
    req.state = "done" /\ is_success(req.status) /\ req.body = "list"

\* the records of a fetch in which entry i supplies an empty milestone list
\* and every other entry the list it holds
WithEmpty(i) ==
    [j \in 1..Len(fetch) |->
        RepositoryMilestones(fetch[j].repo,
            IF j = i THEN <<>> ELSE ListOf(world, fetch[j].repo))]

\* C1: when the list request of exactly one repository fails (non-success
\* response, malformed body or transport error) and the others succeed, the
\* run goes on to the aggregation, and the title -> members mapping is the
\* one obtained with that repository supplying an empty milestone list.
C1_FetchFaultIsolation ==
    \A i \in 1..Len(fetch) :
        (/\ ListFailed(fetch[i])
         /\ \A j \in 1..Len(fetch) : j # i => ListSucceeded(fetch[j]))
        => /\ ~(pc = "Failed" /\ ~Aggregated)
           /\ Aggregated => matching_milestones = Aggregate(pattern, WithEmpty(i))

\* a close request that failed: no response, or a non-success one
CloseFailed(req) ==
    \/ req.state = "error"
    \/ req.state = "done" /\ ~is_success(req.status)

\* group g was confirmed and exactly one of its close requests failed
OneCloseFailed(g) ==
    /\ answers[g] = "yes"
    /\ Cardinality({j \in 1..Len(close[g]) : CloseFailed(close[g][j])}) = 1

\* C2: when a group is confirmed and the close request of exactly one member
\* fails, then by the end of the run the close request of every other member
\* of the group has been answered, and the groups after it have been
\* presented.
C2_MutateFaultIsolation ==
    Terminated =>
        \A g \in 1..Len(close) :
            OneCloseFailed(g) =>
                /\ \A j \in 1..Len(close[g]) :
                      ~CloseFailed(close[g][j]) => close[g][j].state = "done"
                /\ g < Len(order) => index > g

\* the failures the run is allowed to end with: configuration, credentials,
\* pattern argument, terminal read
LocalFailures ==
    {"NoConfigDir", "InvalidConfigFile", "InvalidArgs", "AuthRequired", "IO"}

\* C3: a run whose configuration, credentials, pattern and terminal reads
\* are fine ends with success, whichever list and close requests fail.
C3_RemoteFailuresNeverFatal ==
    (Terminated /\ error \notin LocalFailures) => error = "Ok"

\* the locators of the members of the g-th group presented
Locators(g) ==
    {matching_milestones[order[g]][k][1] :
        k \in 1..Len(matching_milestones[order[g]])}

\* the locators a close request was sent to, over the whole run
Requested ==
    UNION {{close[g][j].url : j \in 1..Len(close[g])} : g \in 1..Len(close)}

\* C4: for a group whose prompt was answered `no`, no close request is sent
\* for the group, and none of its members' locators is the target of any
\* close request of the run.
C4_DeclinedGroupNotClosed ==
    \A g \in 1..Len(answers) :
        answers[g] = "no" =>
            /\ close[g] = <<>>
            /\ \A h \in 1..Len(close) : \A j \in 1..Len(close[h]) :
                  close[h][j].url \notin Locators(g)

\* a group was declined and a later group was confirmed and its close
\* requests were sent
C4_Witness ==
    \E g \in 1..Len(answers) :
        /\ answers[g] = "no"
        /\ \E h \in (g + 1)..Len(close) : close[h] # <<>>

\* positions <<i, k>> of the milestones the fetch returned
Fetched ==
    UNION {{<<i, k>> : k \in 1..Len(repository_milestones[i].milestones)} :
              i \in 1..Len(repository_milestones)}

FetchedAt(ik) == repository_milestones[ik[1]].milestones[ik[2]]

\* C5: every close request sent targets the locator of a fetched milestone
\* whose title matches the pattern, as a member of a group the operator
\* confirmed; no close request targets a milestone whose title does not match.
C5_OnlyMatchingConfirmedClosed ==
    LET fetched == Fetched
        requested == Requested
    IN  /\ \A g \in 1..Len(close) : \A j \in 1..Len(close[g]) :
              /\ answers[g] = "yes"
              /\ <<close[g][j].url, close[g][j].repo>> = matching_milestones[order[g]][j]
              /\ \E ik \in fetched :
                    /\ FetchedAt(ik).url = close[g][j].url
                    /\ repository_milestones[ik[1]].repository = close[g][j].repo
                    /\ FetchedAt(ik).title = order[g]
                    /\ is_match(pattern, FetchedAt(ik).title)
        /\ requested # {} =>
              \A ik \in fetched :
                  ~is_match(pattern, FetchedAt(ik).title)
                  => FetchedAt(ik).url \notin requested

\* a/x holds {S1, u1}, a/y holds {S1, u2} and {S2, u3}, the pattern is S1,
\* the one group was confirmed and the run is over: u1 and u2 were targeted
C5_Witness ==
    /\ pc = "Done"
    /\ repositories = <<"a/x", "a/y">>
    /\ world["a/x"] = <<Sprint1>>
    /\ world["a/y"] = <<Sprint1, Sprint2>>
    /\ pattern = Regex(FALSE, Sprint1, FALSE)
    /\ answers = <<"yes">>
    /\ Requested = {Url("a/x", 1), Url("a/y", 1)}

\* the titles of the fetched milestones
FetchedTitles == {FetchedAt(ik).title : ik \in Fetched}

\* C6: the map holds a group keyed by T exactly when some fetched milestone
\* has the title T and T matches the pattern; no group is empty.
C6_GroupIffMatchingTitle ==
    Folded =>
        /\ DOMAIN matching_milestones =
              {t \in FetchedTitles : is_match(pattern, t)}
        /\ \A t \in DOMAIN matching_milestones : matching_milestones[t] # <<>>

\* the fold has run over a matching and a non-matching title
C6_Witness ==
    /\ Folded
    /\ \E t \in FetchedTitles : is_match(pattern, t)
    /\ \E t \in FetchedTitles : ~is_match(pattern, t)
    /\ DOMAIN matching_milestones # {}

\* the fetched milestones in traversal order, repositories in input order
\* and then each list in its order, as <<title, locator, repository>>
RECURSIVE Traversal(_)
Traversal(rms) ==
    IF rms = <<>>
    THEN <<>>
    ELSE [k \in 1..Len(Head(rms).milestones) |->
             <<Head(rms).milestones[k].title, Head(rms).milestones[k].url,
               Head(rms).repository>>]
         \o Traversal(Tail(rms))

\* the members titled t, in traversal order
InTraversalOrder(t) ==
    LET titled == SelectSeq(Traversal(repository_milestones), LAMBDA x : x[1] = t)
    IN  [k \in 1..Len(titled) |-> <<titled[k][2], titled[k][3]>>]

\* C7: the membership of every group is a function of the fetched records,
\* and the members of a group stand in traversal order: repositories in
\* input order, then the milestones in each repository's list order.
C7_MembersInTraversalOrder ==
    Folded =>
        \A t \in DOMAIN matching_milestones :
            matching_milestones[t] = InTraversalOrder(t)

\* a group with two members of one entry and a member of another entry
C7_Witness ==
    /\ Folded
    /\ \E t \in DOMAIN matching_milestones :
          \E a, b, c \in 1..Len(matching_milestones[t]) :
              /\ a < b
              /\ matching_milestones[t][a][2] = matching_milestones[t][b][2]
              /\ matching_milestones[t][a][1] # matching_milestones[t][b][1]
              /\ matching_milestones[t][c][2] # matching_milestones[t][a][2]

\* C8: a run that has sent its list requests reaches the terminal state
\* Done, given that every request resolves and every prompt is answered.
C8_Termination ==
    (pc = "Fetching") ~> (pc = "Done" \/ error = "IO")

\* C9: without credentials, or with a pattern argument that does not
\* compile, the run aborts with no list request sent, no prompt shown and
\* no close request sent; a run that got further has both.
C9_AbortBeforeAnyRequest ==
    /\ error \in {"AuthRequired", "InvalidArgs"} =>
          /\ pc = "Failed"
          /\ fetch = <<>>
          /\ index = 0
          /\ answers = <<>>
          /\ close = <<>>
    /\ pc \in {"Fetching", "Confirming", "Mutating", "Done"} =>
          auth /\ pattern \in Patterns

\* repositories are configured, the credentials are not: the run has aborted
C9_Witness ==
    /\ error = "AuthRequired"
    /\ ~auth
    /\ repositories # <<>>

\* C10: when reading the answer fails at the prompt of a group, the run
\* aborts there: no close request is sent for the group, no later group is
\* presented, and the milestones closed for earlier groups stay closed.
C10_ReadFailureAborts ==
    \A g \in 1..Len(answers) :
        answers[g] = "err" =>
            /\ pc = "Failed"
            /\ error = "IO"
            /\ index = g
            /\ Len(answers) = g
            /\ Len(close) = g
            /\ close[g] = <<>>
            /\ \A h \in 1..(g - 1) : \A j \in 1..Len(close[h]) :
                  (close[h][j].state = "done" /\ is_success(close[h][j].status))
                  => close[h][j].url \in closed

\* the read failed at the second prompt, after the first group was closed
C10_Witness ==
    /\ answers = <<"yes", "err">>
    /\ closed # {}

\* main() is past the fetch phase: the join has returned, Ok or Err
FetchEnded ==
    \/ pc \in {"Confirming", "Mutating", "Done"}
    \/ pc = "Failed" /\ error \in {"Reqwest", "IO"}

\* C11: the fetch phase ends only when every list request has resolved; no
\* list request is cancelled or left outstanding by the failure of another.
C11_FetchJoinsAll ==
    FetchEnded =>
        \A i \in 1..Len(fetch) : fetch[i].state \notin {"pending", "cancelled"}

\* a request, list or close, is sent and not yet resolved
Outstanding ==
    \/ \E i \in 1..Len(fetch) : fetch[i].state = "pending"
    \/ \E g \in 1..Len(close) : \E j \in 1..Len(close[g]) :
          close[g][j].state = "pending"

\* C12: while a prompt waits for the operator no request is outstanding,
\* and every group presented before was declined or has all its close
\* requests answered.
C12_OneGroupAtATime ==
    pc = "Confirming" =>
        /\ ~Outstanding
        /\ Len(answers) = index - 1
        /\ \A g \in 1..(index - 1) :
              \/ answers[g] = "no" /\ close[g] = <<>>
              \/ /\ answers[g] = "yes"
                 /\ \A j \in 1..Len(close[g]) : close[g][j].state = "done"

\* the second prompt waits after a confirmed group of two members
C12_Witness ==
    /\ pc = "Confirming"
    /\ index = 2
    /\ answers = <<"yes">>
    /\ Len(close[1]) >= 2

\* the record the i-th configured entry gives: its identifier, with the
\* milestones its response deserialised to, none when it did not
RecordOf(i) ==
    RepositoryMilestones(repositories[i],
        IF fetch[i].body = "list" THEN ListOf(world, repositories[i]) ELSE <<>>)

\* C13: the fetcher's output holds one record per configured entry, in the
\* configured order, in every order of completion of the list requests; the
\* map is the fold of these records.
C13_RecordsInConfiguredOrder ==
    Folded =>
        /\ Len(repository_milestones) = Len(repositories)
        /\ \A i \in 1..Len(repositories) : repository_milestones[i] = RecordOf(i)
        /\ matching_milestones =
              Aggregate(pattern, [i \in 1..Len(repositories) |-> RecordOf(i)])

\* two different repositories answered with milestones of one matching title
C13_Witness ==
    /\ Folded
    /\ Len(repositories) = 2
    /\ repositories[1] # repositories[2]
    /\ \E t \in DOMAIN matching_milestones :
          /\ Len(matching_milestones[t]) >= 2
          /\ matching_milestones[t][1][2] = repositories[1]
          /\ matching_milestones[t][2][2] = repositories[2]

\* C14: one list request is sent per configured entry and one close request
\* per member of a confirmed group, each of them once; once the aggregation
\* has run no list request is outstanding.
C14_NoRetry ==
    /\ (pc = "Fetching" \/ FetchEnded) =>
          /\ Len(fetch) = Len(repositories)
          /\ \A i \in 1..Len(fetch) :
                fetch[i].repo = repositories[i] /\ fetch[i].sent = 1
    /\ Aggregated => \A i \in 1..Len(fetch) : fetch[i].state = "done"
    /\ \A g \in 1..Len(close) :
          /\ Len(close[g]) \in {0, Len(matching_milestones[order[g]])}
          /\ \A j \in 1..Len(close[g]) :
                /\ close[g][j].sent = 1
                /\ <<close[g][j].url, close[g][j].repo>> =
                      matching_milestones[order[g]][j]

\* the run is over; a list request and a close request failed, each sent once
C14_Witness ==
    /\ pc = "Done"
    /\ \E i \in 1..Len(fetch) : ListFailed(fetch[i])
    /\ \E g \in 1..Len(close) : \E j \in 1..Len(close[g]) :
          CloseFailed(close[g][j])

\* number of members of the group keyed t that name the repository r
Naming(t, r) ==
    Cardinality({k \in 1..Len(matching_milestones[t]) :
                    matching_milestones[t][k][2] = r})

\* number of milestones titled t the repository r holds
Titled(t, r) == Cardinality({k \in 1..Len(world[r]) : world[r][k] = t})

\* number of configured entries that name the repository r
Entries(r) == Cardinality({i \in 1..Len(repositories) : repositories[i] = r})

\* every member of the group keyed t is a milestone titled t of the
\* repository it names
SameTitle(t) ==
    \A k \in 1..Len(matching_milestones[t]) :
        LET member == matching_milestones[t][k]
        IN  \E n \in 1..Len(world[member[2]]) :
                member[1] = Url(member[2], n) /\ world[member[2]][n] = t

\* C15 as stated: in every group the members come from milestones titled
\* with the group's key, and the members naming a repository are at most
\* the milestones of that title the repository has.
C15_AtMostItsMilestones ==
    Folded =>
        \A t \in DOMAIN matching_milestones :
            /\ SameTitle(t)
            /\ \A r \in Repos : Naming(t, r) <= Titled(t, r)

\* C15, amended: in every group the members come from milestones titled
\* with the group's key, and the members naming a repository are at most
\* the milestones of that title the repository has, once for every
\* configured entry that names the repository.
C15_AtMostItsMilestonesPerEntry ==
    Folded =>
        \A t \in DOMAIN matching_milestones :
            /\ SameTitle(t)
            /\ \A r \in Repos : Naming(t, r) <= Entries(r) * Titled(t, r)

\* a repository configured twice is named by two members of a group, with
\* the one milestone of that title it has
C15_Witness ==
    /\ Folded
    /\ \E t \in DOMAIN matching_milestones : \E r \in Repos :
          /\ Entries(r) = 2
          /\ Titled(t, r) = 1
          /\ Naming(t, r) = 2

\* C16: a list response with a non-success status makes the repository
\* contribute no milestone and emits the diagnostic with the repository
\* identifier and the status code, whatever the body holds.
C16_NonSuccessListIsEmpty ==
    \A i \in 1..Len(fetch) :
        (fetch[i].state = "done" /\ ~is_success(fetch[i].status)) =>
            /\ fetch[i].milestones = <<>>
            /\ fetch[i].diag = <<fetch[i].repo, fetch[i].status>>

\* C17: every close attempt that fails, by a non-success response or in
\* transport, emits the diagnostic naming the member's repository; a close
\* attempt that succeeds emits none.
C17_CloseFailureDiagnosed ==
    \A g \in 1..Len(close) : \A j \in 1..Len(close[g]) :
        /\ CloseFailed(close[g][j]) => close[g][j].diag
        /\ (close[g][j].state = "done" /\ is_success(close[g][j].status))
              => ~close[g][j].diag

\* C18: the count of the summary line is the number of groups, the number
\* of distinct fetched titles that match; a run that ends without failure
\* has shown that many prompts, the indices 1..count once each, one per
\* group; with a count of 0 no prompt is shown, no close request is sent
\* and the run ends with success.
C18_SummaryCountsGroups ==
    Aggregated =>
        /\ found = Cardinality({t \in FetchedTitles : is_match(pattern, t)})
        /\ found = Cardinality(DOMAIN matching_milestones)
        /\ Len(order) = found
        /\ {order[g] : g \in 1..found} = DOMAIN matching_milestones
        /\ index \in 0..found
        /\ pc = "Done" => (index = found /\ Len(answers) = found)
        /\ found = 0 =>
              /\ pc = "Done"
              /\ error = "Ok"
              /\ answers = <<>>
              /\ close = <<>>

\* two groups were found and the run ended after two prompts
C18_Witness ==
    /\ pc = "Done"
    /\ found = 2
    /\ Len(answers) = 2

\* number of members of the groups keyed by the titles of the sequence o
RECURSIVE MembersOf(_)
MembersOf(o) ==
    IF o = <<>>
    THEN 0
    ELSE Len(matching_milestones[Head(o)]) + MembersOf(Tail(o))

\* C19: every member of a group pairs the locator of a fetched milestone,
\* titled with the group's key, with the repository of the record that
\* holds it; the members of all groups are as many as the fetched
\* milestones whose title matches.
C19_MergeIntegrity ==
    Folded =>
        LET fetched == Fetched
        IN  /\ \A t \in DOMAIN matching_milestones :
                  \A k \in 1..Len(matching_milestones[t]) :
                      \E ik \in fetched :
                          /\ FetchedAt(ik).url = matching_milestones[t][k][1]
                          /\ FetchedAt(ik).title = t
                          /\ repository_milestones[ik[1]].repository =
                                matching_milestones[t][k][2]
            /\ MembersOf(order) =
                  Cardinality({ik \in fetched : is_match(pattern, FetchedAt(ik).title)})

\* a group of two members, and a fetched milestone that does not match
C19_Witness ==
    /\ Folded
    /\ \E t \in DOMAIN matching_milestones : Len(matching_milestones[t]) = 2
    /\ \E ik \in Fetched : ~is_match(pattern, FetchedAt(ik).title)

====
